---- MODULE Spec2Model ----
(***************************************************************************)
(* A model of rusty-xinput (src/src/lib.rs): dynamic loading of an XInput  *)
(* DLL into an XInputHandle, the operations of a handle, and the global    *)
(* lazily initialised handle behind the deprecated free functions; and of  *)
(* the singleton of src/examples/demo.rs, which guards its static function *)
(* pointers with an atomic status register.                                *)
(*                                                                         *)
(* The operating system is the environment: `dll` says, for every library  *)
(* name, whether LoadLibraryW finds it and which entry points it exports;  *)
(* `modules` is the process's table of loaded modules with their reference *)
(* counts.  A native call through a bound function pointer returns a code  *)
(* and an output record chosen by the environment.                         *)
(***************************************************************************)
EXTENDS Integers, Sequences, FiniteSets, TLC

VARIABLES
  dll,       \* environment: name -> [present, exports] as the OS loader sees it
  modules,   \* process module table: name -> reference count
  last,      \* the load call that returned last, with what it did
  handle,    \* the XInputHandle the caller operates on
  call,      \* the handle operation that returned last, with what it did
  GLOBAL_XINPUT_HANDLE,  \* the lazily initialised global: its cell and value
  pc,        \* thread -> where it is in a call of a free function
  job,       \* thread -> the call it is in, with its local variables
  done,      \* thread -> the call it returned from last, with its result
  statics,   \* the static variables of examples/demo.rs
  calc       \* the pure function evaluated last, with its arguments and value

vars ==
  <<dll, modules, last, handle, call, GLOBAL_XINPUT_HANDLE, pc, job, done,
    statics, calc>>

----------------------------------------------------------------------------
(* Bounds of the model. *)

\* Largest reference count a module reaches; LoadLibraryW is not modelled beyond it.
MaxRef == 2
\* Largest number of libraries present on the system at once.
MaxPresent == 2
\* Number of threads calling the deprecated free functions.
NumThreads == 2

----------------------------------------------------------------------------
(* Names. *)

NULL == "NULL"

enable_name == "XInputEnable"
get_state_name == "XInputGetState"
set_state_name == "XInputSetState"
get_capabilities_name == "XInputGetCapabilities"
get_keystroke_name == "XInputGetKeystroke"
get_battery_information_name == "XInputGetBatteryInformation"
get_audio_device_ids_name == "XInputGetAudioDeviceIds"
get_dsound_audio_device_guids_name == "XInputGetDSoundAudioDeviceGuids"
\* The two entry points exported by ordinal only.
get_state_ex_ordinal == "#100"
get_capabilities_ex_ordinal == "#108"

Symbols ==
  { enable_name, get_state_name, set_state_name, get_capabilities_name,
    get_keystroke_name, get_battery_information_name,
    get_audio_device_ids_name, get_dsound_audio_device_guids_name,
    get_state_ex_ordinal, get_capabilities_ex_ordinal }

xinput14 == "xinput1_4.dll"
xinput13 == "xinput1_3.dll"
xinput12 == "xinput1_2.dll"
xinput11 == "xinput1_1.dll"
xinput91 == "xinput9_1_0.dll"

LibNames == {xinput14, xinput13, xinput12, xinput11, xinput91}

\* The candidate list in the order the documentation of dynamic_load_xinput gives.
LegacyLibNames == <<xinput91, xinput14, xinput13, xinput12, xinput11>>

\* The candidate list of load_default, in the order of its for loop.
DefaultLibNames == <<xinput14, xinput13, xinput12, xinput11, xinput91>>

----------------------------------------------------------------------------
(* The operating system's loader. *)

Absent == [present |-> FALSE, exports |-> {}]

\* A function pointer is the pair of the module and the entry point it came from.
NullFn == [lib |-> NULL, sym |-> "null"]

\* LoadLibraryW: the module handle of the named library, or null.
LoadLibraryW(lib_name) ==
  IF lib_name \in DOMAIN dll /\ dll[lib_name].present THEN lib_name ELSE NULL

\* GetProcAddress: the address of an exported entry point, or null.  A null
\* module handle names no library: nothing resolves in it.
GetProcAddress(hModule, name) ==
  IF hModule # NULL /\ name \in dll[hModule].exports
    THEN [lib |-> hModule, sym |-> name]
    ELSE NullFn

----------------------------------------------------------------------------
(* XInputLoadingFailure and the result of a load. *)

NoHandle ==
  [ handle |-> NULL,
    xinput_enable |-> NullFn,
    xinput_get_state |-> NullFn,
    xinput_set_state |-> NullFn,
    xinput_get_capabilities |-> NullFn,
    opt_xinput_get_state_ex |-> NullFn,
    opt_xinput_get_capabilities_ex |-> NullFn,
    opt_xinput_get_keystroke |-> NullFn,
    opt_xinput_get_battery_information |-> NullFn,
    opt_xinput_get_audio_device_ids |-> NullFn,
    opt_xinput_get_dsound_audio_device_guids |-> NullFn ]

LoadOk(h) == [ok |-> TRUE, err |-> "none", h |-> h]
LoadErr(e) == [ok |-> FALSE, err |-> e, h |-> NoHandle]

----------------------------------------------------------------------------
(* XInputHandle::load.  The value is the result together with the calls to  *)
(* the loader the function made: the names it passed to LoadLibraryW, the   *)
(* modules it acquired and the modules it released with FreeLibrary.        *)

\* The test of the two pointers only, as examples/demo.rs has it.
required_loaded_legacy(enable, get_state, set_state, get_capabilities) ==
  /\ get_state # NullFn
  /\ set_state # NullFn

\* The test that decides between Ok and NoPointers.
required_loaded(enable, get_state, set_state, get_capabilities) ==
  /\ enable # NullFn
  /\ get_state # NullFn
  /\ set_state # NullFn
  /\ get_capabilities # NullFn

load(s) ==
  LET xinput_handle == LoadLibraryW(s)
      opt_xinput_enable == GetProcAddress(xinput_handle, enable_name)
      opt_xinput_get_state == GetProcAddress(xinput_handle, get_state_name)
      opt_xinput_set_state == GetProcAddress(xinput_handle, set_state_name)
      opt_xinput_get_state_ex == GetProcAddress(xinput_handle, get_state_ex_ordinal)
      opt_xinput_get_capabilities ==
        GetProcAddress(xinput_handle, get_capabilities_name)
      opt_xinput_get_capabilities_ex ==
        GetProcAddress(xinput_handle, get_capabilities_ex_ordinal)
      opt_xinput_get_keystroke == GetProcAddress(xinput_handle, get_keystroke_name)
      opt_xinput_get_battery_information ==
        GetProcAddress(xinput_handle, get_battery_information_name)
      opt_xinput_get_dsound_audio_device_guids ==
        GetProcAddress(xinput_handle, get_dsound_audio_device_guids_name)
      opt_xinput_get_audio_device_ids ==
        GetProcAddress(xinput_handle, get_audio_device_ids_name)
      ret ==
        IF required_loaded(opt_xinput_enable, opt_xinput_get_state,
                           opt_xinput_set_state, opt_xinput_get_capabilities)
          THEN LoadOk(
                 [ handle |-> xinput_handle,
                   xinput_enable |-> opt_xinput_enable,
                   xinput_get_state |-> opt_xinput_get_state,
                   xinput_set_state |-> opt_xinput_set_state,
                   xinput_get_capabilities |-> opt_xinput_get_capabilities,
                   opt_xinput_get_capabilities_ex |-> opt_xinput_get_capabilities_ex,
                   opt_xinput_get_state_ex |-> opt_xinput_get_state_ex,
                   opt_xinput_get_keystroke |-> opt_xinput_get_keystroke,
                   opt_xinput_get_battery_information |->
                     opt_xinput_get_battery_information,
                   opt_xinput_get_dsound_audio_device_guids |->
                     opt_xinput_get_dsound_audio_device_guids,
                   opt_xinput_get_audio_device_ids |->
                     opt_xinput_get_audio_device_ids ])
          ELSE LoadErr("NoPointers")
  IN [ ret |-> ret,
       tried |-> <<s>>,
       acquired |-> IF xinput_handle # NULL THEN <<xinput_handle>> ELSE <<>>,
       freed |-> <<>> ]

----------------------------------------------------------------------------
(* XInputHandle::load_default: the for loop over the candidate list.        *)

RECURSIVE load_default_from(_)
load_default_from(i) ==
  IF i > Len(DefaultLibNames)
    THEN [ret |-> LoadErr("NoDLL"), tried |-> <<>>, acquired |-> <<>>, freed |-> <<>>]
    ELSE LET r == load(DefaultLibNames[i])
         IN IF r.ret.ok
              THEN r
              ELSE LET rest == load_default_from(i + 1)
                   IN [ ret |-> rest.ret,
                        tried |-> r.tried \o rest.tried,
                        acquired |-> r.acquired \o rest.acquired,
                        freed |-> r.freed \o rest.freed ]

load_default == load_default_from(1)

----------------------------------------------------------------------------
(* 32-bit unsigned values (u32, DWORD), kept as two 16-bit halves so that    *)
(* the whole range up to u32::MAX is represented.                            *)

u32(n) == [hi |-> n \div 65536, lo |-> n % 65536]
u32_MAX == [hi |-> 65535, lo |-> 65535]
u32_ge(a, b) == a.hi > b.hi \/ (a.hi = b.hi /\ a.lo >= b.lo)

ERROR_SUCCESS == 0
ERROR_DEVICE_NOT_CONNECTED == 1167
ERROR_EMPTY == 4306

BATTERY_DEVTYPE_GAMEPAD == 0
BATTERY_DEVTYPE_HEADSET == 1

----------------------------------------------------------------------------
(* XInputUsageError, XInputOptionalFnUsageError and the result of an        *)
(* operation of a handle.                                                   *)

NoValue == [kind |-> "none"]

UsageOk(v) == [tag |-> "Ok", ty |-> "none", err |-> "none", code |-> u32(0), val |-> v]
UsageErr(ty, e) == [tag |-> "Err", ty |-> ty, err |-> e, code |-> u32(0), val |-> NoValue]
UnknownError(ty, s) ==
  [tag |-> "Err", ty |-> ty, err |-> "UnknownError", code |-> s, val |-> NoValue]

XInputUsageError == "XInputUsageError"
XInputOptionalFnUsageError == "XInputOptionalFnUsageError"

\* One call through a bound function pointer: the pointer, the arguments, and
\* what the native function answered (its return code and the output record).
NativeCall(f, args, native) ==
  [fn |-> f, args |-> args, code |-> native.code, out |-> native.out]

\* An operation's value: its result and the native calls it made.
Returned(res, native) == [res |-> res, native |-> native]

XInputState(output) == [kind |-> "XInputState", raw |-> output]
Some(v) == [kind |-> "Some", v |-> v]
None == [kind |-> "None"]
Unit == [kind |-> "()"]
XInputBatteryInformation(output) ==
  [ kind |-> "XInputBatteryInformation",
    battery_type |-> output.BatteryType,
    battery_level |-> output.BatteryLevel ]

----------------------------------------------------------------------------
(* The button methods of XInputState: a bit test of the button mask, a WORD. *)

\* The bits of winapi::um::xinput for the A and the Y button.
XINPUT_GAMEPAD_A == 4096
XINPUT_GAMEPAD_Y == 32768

\* a & b on unsigned values.
RECURSIVE BitAnd(_, _)
BitAnd(a, b) ==
  IF a = 0 \/ b = 0
    THEN 0
    ELSE (a % 2) * (b % 2) + 2 * BitAnd(a \div 2, b \div 2)

\* north_button testing the bit of the A button.
north_button_a(self) == BitAnd(self.raw.Gamepad.wButtons, XINPUT_GAMEPAD_A) # 0

north_button(self) == BitAnd(self.raw.Gamepad.wButtons, XINPUT_GAMEPAD_Y) # 0

south_button(self) == BitAnd(self.raw.Gamepad.wButtons, XINPUT_GAMEPAD_A) # 0

\* Equality that compares the whole wrapped value, as a derived PartialEq
\* would.
eq_derived(self, other) == self.raw = other.raw

\* PartialEq for XInputState.
eq(self, other) == self.raw.dwPacketNumber = other.raw.dwPacketNumber

----------------------------------------------------------------------------
(* f32 arithmetic.  A finite value is sign, significand and exponent,        *)
(* (-1)^s * m * 2^e, with m = 0 or 2^23 <= m < 2^24 (24 significant bits);   *)
(* every operation rounds its exact result to the nearest such value, ties   *)
(* to the even significand, as IEEE 754 binary32 does.  The values of stick  *)
(* normalisation lie between 2^-40 and 2^31, far inside the exponent range   *)
(* of f32, so overflow and subnormals do not arise; 0/0 is NaN.              *)

NaN == [k |-> "nan", s |-> 0, m |-> 0, e |-> 0]
Zero(s) == [k |-> "num", s |-> s, m |-> 0, e |-> 0]

\* n * 2^e, of which bits below n's last were dropped iff `sticky`, rounded to
\* 24 significant bits.  A value with `sticky` set comes with n >= 2^24.
Round(s, n, e, sticky) ==
  IF n = 0 THEN Zero(s)
  ELSE LET RECURSIVE BitLen(_)
           \* The number of bits of i: the least b with i < 2^b.
           BitLen(i) == IF i = 0 THEN 0 ELSE 1 + BitLen(i \div 2)
           b == BitLen(n)
       IN IF b <= 24
            THEN [k |-> "num", s |-> s, m |-> n * 2 ^ (24 - b), e |-> e - (24 - b)]
            ELSE LET d == b - 24
                     q == n \div 2 ^ d
                     r == n % 2 ^ d
                     half == 2 ^ (d - 1)
                     up == r > half \/ (r = half /\ (sticky \/ q % 2 = 1))
                     m == IF up THEN q + 1 ELSE q
                 IN IF m = 16777216
                      THEN [k |-> "num", s |-> s, m |-> 8388608, e |-> e + d + 1]
                      ELSE [k |-> "num", s |-> s, m |-> m, e |-> e + d]

\* `as f32` of an i16: exact.
f32(i) == Round(IF i < 0 THEN 1 ELSE 0, IF i < 0 THEN -i ELSE i, 0, FALSE)

\* a < b and a > b for values that are not NaN.
Less(a, b) ==
  LET neg(x) == x.s = 1 /\ x.m # 0
      below(x, y) == \* 0 <= |x| < |y|
        y.m # 0 /\ (x.m = 0 \/ x.e < y.e \/ (x.e = y.e /\ x.m < y.m))
  IN CASE a.k = "nan" \/ b.k = "nan" -> FALSE
       [] neg(a) /\ ~neg(b) -> b.m # 0 \/ a.m # 0
       [] ~neg(a) /\ neg(b) -> FALSE
       [] neg(a) /\ neg(b) -> below(b, a)
       [] OTHER -> below(a, b)

\* f32::min
Min(a, b) == IF Less(b, a) THEN b ELSE a

\* a * b.  The 48-bit product of the significands is formed in halves of 12
\* bits and its upper 26 bits are rounded, the rest being sticky.
Mul(a, b) ==
  IF a.k = "nan" \/ b.k = "nan" THEN NaN
  ELSE IF a.m = 0 \/ b.m = 0 THEN Zero((a.s + b.s) % 2)
  ELSE LET a1 == a.m \div 4096
           a0 == a.m % 4096
           b1 == b.m \div 4096
           b0 == b.m % 4096
           mid == a1 * b0 + a0 * b1
           low == (mid % 4096) * 4096 + a0 * b0
           lo == low % 16777216
           hi == a1 * b1 + mid \div 4096 + low \div 16777216
       IN Round((a.s + b.s) % 2, hi * 4 + lo \div 4194304, a.e + b.e + 22,
                lo % 4194304 # 0)

\* a / b.  The quotient of the significands is formed to 26 binary places by
\* long division, the remainder being sticky.
Div(a, b) ==
  IF a.k = "nan" \/ b.k = "nan" THEN NaN
  ELSE IF b.m = 0
    THEN (IF a.m = 0 THEN NaN
          ELSE [k |-> "inf", s |-> (a.s + b.s) % 2, m |-> 0, e |-> 0])
  ELSE IF a.m = 0 THEN Zero((a.s + b.s) % 2)
  ELSE LET RECURSIVE DivBits(_)
           \* <<quotient, remainder>> of a.m * 2^bits by b.m
           DivBits(bits) ==
             IF bits = 0
               THEN <<a.m \div b.m, a.m % b.m>>
               ELSE LET qr == DivBits(bits - 1)
                        r2 == 2 * qr[2]
                    IN IF r2 >= b.m THEN <<2 * qr[1] + 1, r2 - b.m>>
                                    ELSE <<2 * qr[1], r2>>
           qr == DivBits(26)
       IN Round((a.s + b.s) % 2, qr[1], a.e - b.e - 26, qr[2] # 0)

\* A significand with three guard bits, moved down by d binary places to the
\* exponent of the other operand: <<bits kept, whether a one was dropped>>.
Align(m, d) ==
  IF d >= 27 THEN <<0, m # 0>>
  ELSE <<(m * 8) \div 2 ^ d, (m * 8) % 2 ^ d # 0>>

\* a + b for a and b of one sign.
Add(a, b) ==
  IF a.k = "nan" \/ b.k = "nan" THEN NaN
  ELSE IF a.m = 0 THEN b
  ELSE IF b.m = 0 THEN a
  ELSE LET x == IF a.e >= b.e THEN a ELSE b
           y == IF a.e >= b.e THEN b ELSE a
           sh == Align(y.m, x.e - y.e)
       IN Round(x.s, x.m * 8 + sh[1], x.e - 3, sh[2])

\* a - b for a >= b >= 0.  A dropped one borrows from the kept bits and stays
\* sticky.
Sub(a, b) ==
  IF a.k = "nan" \/ b.k = "nan" THEN NaN
  ELSE IF b.m = 0 THEN a
  ELSE LET sh == Align(b.m, a.e - b.e)
       IN Round(0, a.m * 8 - sh[1] - (IF sh[2] THEN 1 ELSE 0), a.e - 3, sh[2])

\* f32::sqrt of a >= 0.  The root of the significand is formed to 26 bits, a
\* bit per step from two bits of the significand (of 13 pairs of bits) and
\* then of zeros, the remainder being sticky.
Sqrt(a) ==
  IF a.k = "nan" THEN NaN
  ELSE IF a.m = 0 THEN a
  ELSE LET odd == a.e % 2 = 1
           n == IF odd THEN 2 * a.m ELSE a.m
           e == IF odd THEN a.e - 1 ELSE a.e
           RECURSIVE SqrtBits(_)
           \* <<root, remainder>> after `steps` steps
           SqrtBits(steps) ==
             IF steps = 0
               THEN <<0, 0>>
               ELSE LET rr == SqrtBits(steps - 1)
                        pair == IF steps <= 13 THEN (n \div 4 ^ (13 - steps)) % 4 ELSE 0
                        rem == 4 * rr[2] + pair
                        trial == 4 * rr[1] + 1
                    IN IF rem >= trial THEN <<2 * rr[1] + 1, rem - trial>>
                                       ELSE <<2 * rr[1], rem>>
           rr == SqrtBits(26)
       IN Round(0, rr[1], e \div 2 - 13, rr[2] # 0)

----------------------------------------------------------------------------
(* The operations of XInputHandle.  `native` is the answer the native       *)
(* function gives if the operation calls it.                                *)

\* The slot test off by one: user_index > 4.
invalid_controller_id_off_by_one(user_index) == u32_ge(user_index, u32(5))

invalid_controller_id(user_index) == u32_ge(user_index, u32(4))

get_state(self, user_index, native) ==
  IF invalid_controller_id(user_index)
    THEN Returned(UsageErr(XInputUsageError, "InvalidControllerID"), <<>>)
    ELSE LET return_status == native.code
             res ==
               CASE return_status = u32(ERROR_SUCCESS) ->
                      UsageOk(XInputState(native.out))
                 [] return_status = u32(ERROR_DEVICE_NOT_CONNECTED) ->
                      UsageErr(XInputUsageError, "DeviceNotConnected")
                 [] OTHER -> UnknownError(XInputUsageError, return_status)
         IN Returned(res, <<NativeCall(self.xinput_get_state, <<user_index>>, native)>>)

\* get_state_ex falling back on XInputGetState when ordinal 100 is not bound.
get_state_ex_fallback(self, user_index, native) ==
  IF invalid_controller_id(user_index)
    THEN Returned(UsageErr(XInputUsageError, "InvalidControllerID"), <<>>)
    ELSE IF self.opt_xinput_get_state_ex = NullFn
      THEN get_state(self, user_index, native)
      ELSE LET return_status == native.code
               res ==
                 CASE return_status = u32(ERROR_SUCCESS) ->
                        UsageOk(XInputState(native.out))
                   [] return_status = u32(ERROR_DEVICE_NOT_CONNECTED) ->
                        UsageErr(XInputUsageError, "DeviceNotConnected")
                   [] OTHER -> UnknownError(XInputUsageError, return_status)
           IN Returned(res,
                <<NativeCall(self.opt_xinput_get_state_ex, <<user_index>>, native)>>)

get_state_ex(self, user_index, native) ==
  IF invalid_controller_id(user_index)
    THEN Returned(UsageErr(XInputUsageError, "InvalidControllerID"), <<>>)
    ELSE IF self.opt_xinput_get_state_ex = NullFn
      THEN Returned(UsageErr(XInputUsageError, "XInputNotLoaded"), <<>>)
      ELSE LET return_status == native.code
               res ==
                 CASE return_status = u32(ERROR_SUCCESS) ->
                        UsageOk(XInputState(native.out))
                   [] return_status = u32(ERROR_DEVICE_NOT_CONNECTED) ->
                        UsageErr(XInputUsageError, "DeviceNotConnected")
                   [] OTHER -> UnknownError(XInputUsageError, return_status)
           IN Returned(res,
                <<NativeCall(self.opt_xinput_get_state_ex, <<user_index>>, native)>>)

\* set_state without the device-not-connected arm, as the battery query has it.
set_state_without_not_connected(self, user_index, left, right, native) ==
  IF invalid_controller_id(user_index)
    THEN Returned(UsageErr(XInputUsageError, "InvalidControllerID"), <<>>)
    ELSE LET input == [wLeftMotorSpeed |-> left, wRightMotorSpeed |-> right]
             return_status == native.code
             res ==
               CASE return_status = u32(ERROR_SUCCESS) -> UsageOk(Unit)
                 [] OTHER -> UnknownError(XInputUsageError, return_status)
         IN Returned(res,
              <<NativeCall(self.xinput_set_state, <<user_index, input>>, native)>>)

set_state(self, user_index, left_motor_speed, right_motor_speed, native) ==
  IF invalid_controller_id(user_index)
    THEN Returned(UsageErr(XInputUsageError, "InvalidControllerID"), <<>>)
    ELSE LET input == [ wLeftMotorSpeed |-> left_motor_speed,
                        wRightMotorSpeed |-> right_motor_speed ]
             return_status == native.code
             res ==
               CASE return_status = u32(ERROR_SUCCESS) -> UsageOk(Unit)
                 [] return_status = u32(ERROR_DEVICE_NOT_CONNECTED) ->
                      UsageErr(XInputUsageError, "DeviceNotConnected")
                 [] OTHER -> UnknownError(XInputUsageError, return_status)
         IN Returned(res,
              <<NativeCall(self.xinput_set_state, <<user_index, input>>, native)>>)

get_capabilities(self, user_index, native) ==
  IF invalid_controller_id(user_index)
    THEN Returned(UsageErr(XInputUsageError, "InvalidControllerID"), <<>>)
    ELSE LET return_status == native.code
             res ==
               CASE return_status = u32(ERROR_SUCCESS) -> UsageOk(native.out)
                 [] return_status = u32(ERROR_DEVICE_NOT_CONNECTED) ->
                      UsageErr(XInputUsageError, "DeviceNotConnected")
                 [] OTHER -> UnknownError(XInputUsageError, return_status)
         IN Returned(res,
              <<NativeCall(self.xinput_get_capabilities, <<user_index, 0>>, native)>>)

get_capabilities_ex(self, user_index, native) ==
  IF invalid_controller_id(user_index)
    THEN Returned(UsageErr(XInputUsageError, "InvalidControllerID"), <<>>)
    ELSE IF self.opt_xinput_get_capabilities_ex = NullFn
      THEN Returned(UsageErr(XInputUsageError, "XInputNotLoaded"), <<>>)
      ELSE LET return_status == native.code
               res ==
                 CASE return_status = u32(ERROR_SUCCESS) -> UsageOk(native.out)
                   [] return_status = u32(ERROR_DEVICE_NOT_CONNECTED) ->
                        UsageErr(XInputUsageError, "DeviceNotConnected")
                   [] OTHER -> UnknownError(XInputUsageError, return_status)
           IN Returned(res,
                <<NativeCall(self.opt_xinput_get_capabilities_ex,
                             <<1, user_index, 0>>, native)>>)

\* get_keystroke without the ERROR_EMPTY arm.
get_keystroke_without_empty(self, user_index, native) ==
  IF invalid_controller_id(user_index)
    THEN Returned(UsageErr(XInputOptionalFnUsageError, "InvalidControllerID"), <<>>)
    ELSE IF self.opt_xinput_get_keystroke # NullFn
      THEN LET func == self.opt_xinput_get_keystroke
               return_status == native.code
               res ==
                 CASE return_status = u32(ERROR_SUCCESS) -> UsageOk(Some(native.out))
                   [] return_status = u32(ERROR_DEVICE_NOT_CONNECTED) ->
                        UsageErr(XInputOptionalFnUsageError, "DeviceNotConnected")
                   [] OTHER -> UnknownError(XInputOptionalFnUsageError, return_status)
           IN Returned(res, <<NativeCall(func, <<user_index, 0>>, native)>>)
      ELSE Returned(UsageErr(XInputOptionalFnUsageError, "FunctionNotLoaded"), <<>>)

get_keystroke(self, user_index, native) ==
  IF invalid_controller_id(user_index)
    THEN Returned(UsageErr(XInputOptionalFnUsageError, "InvalidControllerID"), <<>>)
    ELSE IF self.opt_xinput_get_keystroke # NullFn
      THEN LET func == self.opt_xinput_get_keystroke
               return_status == native.code
               res ==
                 CASE return_status = u32(ERROR_SUCCESS) -> UsageOk(Some(native.out))
                   [] return_status = u32(ERROR_EMPTY) -> UsageOk(None)
                   [] return_status = u32(ERROR_DEVICE_NOT_CONNECTED) ->
                        UsageErr(XInputOptionalFnUsageError, "DeviceNotConnected")
                   [] OTHER -> UnknownError(XInputOptionalFnUsageError, return_status)
           IN Returned(res, <<NativeCall(func, <<user_index, 0>>, native)>>)
      ELSE Returned(UsageErr(XInputOptionalFnUsageError, "FunctionNotLoaded"), <<>>)

xinput_get_battery_information(self, user_index, dev_type, native) ==
  IF invalid_controller_id(user_index)
    THEN Returned(UsageErr(XInputOptionalFnUsageError, "InvalidControllerID"), <<>>)
    ELSE IF self.opt_xinput_get_battery_information # NullFn
      THEN LET func == self.opt_xinput_get_battery_information
               return_status == native.code
               res ==
                 CASE return_status = u32(ERROR_SUCCESS) ->
                        UsageOk(XInputBatteryInformation(native.out))
                   [] OTHER -> UnknownError(XInputOptionalFnUsageError, return_status)
           IN Returned(res, <<NativeCall(func, <<user_index, dev_type>>, native)>>)
      ELSE Returned(UsageErr(XInputOptionalFnUsageError, "FunctionNotLoaded"), <<>>)

get_gamepad_battery_information(self, user_index, native) ==
  xinput_get_battery_information(self, user_index, BATTERY_DEVTYPE_GAMEPAD, native)

get_headset_battery_information(self, user_index, native) ==
  xinput_get_battery_information(self, user_index, BATTERY_DEVTYPE_HEADSET, native)

----------------------------------------------------------------------------
(* The module table after a call that acquired and released modules. *)

Count(seq, x) == Cardinality({i \in DOMAIN seq : seq[i] = x})

ModulesAfter(r) ==
  [n \in LibNames |-> modules[n] + Count(r.acquired, n) - Count(r.freed, n)]

WithinRef(r) == \A n \in LibNames : ModulesAfter(r)[n] <= MaxRef

NoCall ==
  [ op |-> "none", user_index |-> u32(0),
    res |-> UsageErr("none", "none"), native |-> <<>> ]
NoLoad ==
  [ op |-> "none", name |-> "none", ret |-> LoadErr("none"),
    tried |-> <<>>, acquired |-> <<>>, freed |-> <<>> ]

----------------------------------------------------------------------------
(* Handle construction: the caller calls load or load_default.  *)

\* The export tables the libraries of this model come with.
Required == {enable_name, get_state_name, set_state_name, get_capabilities_name}
ExportChoices == {{}, Required \ {enable_name}, Required, Symbols}

Envs ==
  { e \in [LibNames -> {Absent} \cup [present : {TRUE}, exports : ExportChoices]] :
      Cardinality({n \in LibNames : e[n].present}) <= MaxPresent }

Threads == 1 .. NumThreads

\* The global before its first use, and no thread inside a call.
Uninitialised == [state |-> "uninit", value |-> LoadErr("none")]
NoJob == [op |-> "none", after_success |-> FALSE, during_load |-> FALSE]
NoRet ==
  [ op |-> "none", after_success |-> FALSE, during_load |-> FALSE,
    ok |-> FALSE, err |-> "none" ]

\* The status register of examples/demo.rs takes these values.
xinput_UNINITIALIZED == 0
xinput_LOADING == 1
xinput_ACTIVE == 2

\* The statics of examples/demo.rs as the program starts, and no pure function
\* evaluated yet.
InitStatics ==
  /\ statics = [ global_xinput_handle |-> NULL,
                 opt_xinput_get_state |-> NullFn,
                 opt_xinput_set_state |-> NullFn,
                 xinput_status |-> xinput_UNINITIALIZED ]
  /\ calc = [op |-> "none"]

InitGlobal ==
  /\ GLOBAL_XINPUT_HANDLE = Uninitialised
  /\ pc = [t \in Threads |-> "idle"]
  /\ job = [t \in Threads |-> NoJob]
  /\ done = [t \in Threads |-> NoRet]

global_vars == <<GLOBAL_XINPUT_HANDLE, pc, job, done>>

Init ==
  /\ dll \in Envs
  /\ modules = [n \in LibNames |-> 0]
  /\ last = NoLoad
  /\ handle = NoHandle
  /\ call = NoCall
  /\ InitGlobal
  /\ InitStatics

Load(s) ==
  LET r == load(s)
  IN /\ WithinRef(r)
     /\ last' = [ op |-> "load", name |-> s, ret |-> r.ret, tried |-> r.tried,
                  acquired |-> r.acquired, freed |-> r.freed ]
     /\ modules' = ModulesAfter(r)
     /\ handle' = IF r.ret.ok THEN r.ret.h ELSE handle
     /\ UNCHANGED <<statics, calc, dll, call, global_vars>>

LoadDefault ==
  LET r == load_default
  IN /\ WithinRef(r)
     /\ last' = [ op |-> "load_default", name |-> "none", ret |-> r.ret,
                  tried |-> r.tried, acquired |-> r.acquired, freed |-> r.freed ]
     /\ modules' = ModulesAfter(r)
     /\ handle' = IF r.ret.ok THEN r.ret.h ELSE handle
     /\ UNCHANGED <<statics, calc, dll, call, global_vars>>

Next ==
  \/ \E s \in LibNames : Load(s)
  \/ LoadDefault

Spec == Init /\ [][Next]_vars

\* One library on the system, exporting any set of entry points.
InitBind ==
  /\ \E n \in LibNames, x \in SUBSET Symbols :
       dll = [m \in LibNames |->
                IF m = n THEN [present |-> TRUE, exports |-> x] ELSE Absent]
  /\ modules = [n \in LibNames |-> 0]
  /\ last = NoLoad
  /\ handle = NoHandle
  /\ call = NoCall
  /\ InitGlobal
  /\ InitStatics

SpecBind == InitBind /\ [][Next]_vars

----------------------------------------------------------------------------
(* Use of a handle: the caller holds the handle a successful load returned  *)
(* and calls its operations.  The native side answers each call with any    *)
(* return code and any output record.                                       *)

UsedOptional ==
  { get_state_ex_ordinal, get_capabilities_ex_ordinal,
    get_keystroke_name, get_battery_information_name }

UserIndices == {u32(0), u32(3), u32(4), u32(5), u32(100), u32_MAX}
ReturnCodes ==
  { u32(ERROR_SUCCESS), u32(ERROR_DEVICE_NOT_CONNECTED), u32(ERROR_EMPTY),
    u32(5), u32_MAX }
MotorSpeeds == {<<0, 0>>, <<1000, 65535>>}
DemoMotorSpeeds == {<<1000, 65535>>}

XINPUT_GAMEPAD(buttons, lx, ly) ==
  [ wButtons |-> buttons, bLeftTrigger |-> 0, bRightTrigger |-> 0,
    sThumbLX |-> lx, sThumbLY |-> ly, sThumbRX |-> 0, sThumbRY |-> 0 ]
\* The output records: zeroed, as an operation passes them in, and as a native
\* function may fill them.
ZeroState == [dwPacketNumber |-> 0, Gamepad |-> XINPUT_GAMEPAD(0, 0, 0)]
NativeStates ==
  { ZeroState,
    [dwPacketNumber |-> 7, Gamepad |-> XINPUT_GAMEPAD(4096, 0, 0)],
    [dwPacketNumber |-> 8, Gamepad |-> XINPUT_GAMEPAD(32769, 0, 0)] }
ZeroCapabilities == [Type |-> 0, SubType |-> 0, Flags |-> 0]
NativeCapabilities == {ZeroCapabilities, [Type |-> 1, SubType |-> 1, Flags |-> 4]}
ZeroCapabilitiesEx ==
  [ capabilities |-> ZeroCapabilities,
    vendor_id |-> 0, product_id |-> 0, revision_id |-> 0, a4 |-> 0 ]
NativeCapabilitiesEx ==
  { ZeroCapabilitiesEx,
    [ capabilities |-> [Type |-> 1, SubType |-> 1, Flags |-> 4],
      vendor_id |-> 1118, product_id |-> 654, revision_id |-> 1, a4 |-> 0 ] }
ZeroKeystroke ==
  [VirtualKey |-> 0, Unicode |-> 0, Flags |-> 0, UserIndex |-> 0, HidCode |-> 0]
NativeKeystrokes ==
  { ZeroKeystroke,
    [VirtualKey |-> 22528, Unicode |-> 0, Flags |-> 1, UserIndex |-> 0, HidCode |-> 0] }
ZeroBattery == [BatteryType |-> 0, BatteryLevel |-> 0]
NativeBatteries == {ZeroBattery, [BatteryType |-> 3, BatteryLevel |-> 2]}

\* What a native function may answer: success with any output record, or a
\* failure code with the output record left as it was passed in (zeroed).
Answers(outs, zeroed) ==
  [code : {u32(ERROR_SUCCESS)}, out : outs]
    \cup [code : ReturnCodes \ {u32(ERROR_SUCCESS)}, out : {zeroed}]

\* The libraries a handle of this part is loaded from.
UseLibNames == {xinput14, xinput91}
UseExports == {Required \cup o : o \in SUBSET UsedOptional} \cup {Symbols}

InitUse ==
  /\ \E n \in UseLibNames, x \in UseExports :
       /\ dll = [m \in LibNames |->
                   IF m = n THEN [present |-> TRUE, exports |-> x] ELSE Absent]
       /\ LET r == load(n)
          IN /\ r.ret.ok
             /\ handle = r.ret.h
             /\ last = [ op |-> "load", name |-> n, ret |-> r.ret, tried |-> r.tried,
                         acquired |-> r.acquired, freed |-> r.freed ]
             /\ modules = [m \in LibNames |-> Count(r.acquired, m) - Count(r.freed, m)]
  /\ call = NoCall
  /\ InitGlobal
  /\ InitStatics

Called(op, user_index, r) ==
  /\ call' = [op |-> op, user_index |-> user_index, res |-> r.res, native |-> r.native]
  /\ UNCHANGED <<statics, calc, dll, modules, last, handle, global_vars>>

GetState ==
  \E u \in UserIndices, a \in Answers(NativeStates, ZeroState) :
    Called("get_state", u, get_state(handle, u, a))

GetStateEx ==
  \E u \in UserIndices, a \in Answers(NativeStates, ZeroState) :
    Called("get_state_ex", u, get_state_ex(handle, u, a))

SetState ==
  \E u \in UserIndices, m \in MotorSpeeds, a \in Answers({NoValue}, NoValue) :
    Called("set_state", u, set_state(handle, u, m[1], m[2], a))

GetCapabilities ==
  \E u \in UserIndices, a \in Answers(NativeCapabilities, ZeroCapabilities) :
    Called("get_capabilities", u, get_capabilities(handle, u, a))

GetCapabilitiesEx ==
  \E u \in UserIndices, a \in Answers(NativeCapabilitiesEx, ZeroCapabilitiesEx) :
    Called("get_capabilities_ex", u, get_capabilities_ex(handle, u, a))

GetKeystroke ==
  \E u \in UserIndices, a \in Answers(NativeKeystrokes, ZeroKeystroke) :
    Called("get_keystroke", u, get_keystroke(handle, u, a))

GetGamepadBatteryInformation ==
  \E u \in UserIndices, a \in Answers(NativeBatteries, ZeroBattery) :
    Called("get_gamepad_battery_information", u,
           get_gamepad_battery_information(handle, u, a))

GetHeadsetBatteryInformation ==
  \E u \in UserIndices, a \in Answers(NativeBatteries, ZeroBattery) :
    Called("get_headset_battery_information", u,
           get_headset_battery_information(handle, u, a))

\* The caller asks the state get_state returned last for a button.
NorthButton ==
  /\ call.op = "get_state" /\ call.res.tag = "Ok"
  /\ calc' = [ op |-> "north_button", self |-> call.res.val,
               value |-> north_button(call.res.val) ]
  /\ UNCHANGED <<statics, dll, modules, last, handle, call, global_vars>>

SouthButton ==
  /\ call.op = "get_state" /\ call.res.tag = "Ok"
  /\ calc' = [ op |-> "south_button", self |-> call.res.val,
               value |-> south_button(call.res.val) ]
  /\ UNCHANGED <<statics, dll, modules, last, handle, call, global_vars>>

NextUse ==
  \/ GetState
  \/ GetStateEx
  \/ SetState
  \/ GetCapabilities
  \/ GetCapabilitiesEx
  \/ GetKeystroke
  \/ GetGamepadBatteryInformation
  \/ GetHeadsetBatteryInformation

SpecUse == InitUse /\ [][NextUse]_vars

\* A caller that polls with get_state and reads buttons of what it returned.
NextButtons ==
  \/ GetState
  \/ NorthButton
  \/ SouthButton

SpecButtons == InitUse /\ [][NextButtons]_vars

----------------------------------------------------------------------------
(* The pure functions of XInputState, applied to values a program may hold:  *)
(* states obtained from the xinput system and states it made itself.         *)

XInputStates ==
  { XInputState([dwPacketNumber |-> p, Gamepad |-> XINPUT_GAMEPAD(b, lx, 0)]) :
      p \in {0, 7, 8}, b \in {0, 4096}, lx \in {0, -32768} }

\* The three states drawn at the start are compared with each other, in every
\* order.
Eq ==
  /\ calc.op = "none" /\ "v" \in DOMAIN calc
  /\ calc' = [ op |-> "eq", v |-> calc.v,
               value |-> [i \in 1 .. 3 |-> [j \in 1 .. 3 |-> eq(calc.v[i], calc.v[j])]] ]
  /\ UNCHANGED <<statics, dll, modules, last, handle, call, global_vars>>

i16_MIN == -32768
i16_MAX == 32767

\* XInputState::normalize_raw_stick_value, operation for operation in f32: the
\* value returned, `ret`, and the locals bound by `let` ahead of the `if`,
\* which are evaluated whichever branch is taken.
normalize_raw_stick_value_unclipped(raw_stick, deadzone) ==
  LET clamped == IF deadzone < 0 THEN 0
                 ELSE IF deadzone > i16_MAX - 1 THEN i16_MAX - 1 ELSE deadzone
      deadzone_float == f32(clamped)
      raw_float == <<f32(raw_stick[1]), f32(raw_stick[2])>>
      length == Sqrt(Add(Mul(raw_float[1], raw_float[1]),
                         Mul(raw_float[2], raw_float[2])))
      normalized == <<Div(raw_float[1], length), Div(raw_float[2], length)>>
  IN [ deadzone_float |-> deadzone_float, length |-> length,
       normalized |-> normalized,
       ret |-> IF Less(deadzone_float, length)
                 THEN LET scale == Div(Sub(length, deadzone_float),
                                       Sub(f32(i16_MAX), deadzone_float))
                      IN <<Mul(normalized[1], scale), Mul(normalized[2], scale)>>
                 ELSE <<Zero(0), Zero(0)>> ]
normalize_raw_stick_value(raw_stick, deadzone) ==
  LET clamped == IF deadzone < 0 THEN 0
                 ELSE IF deadzone > i16_MAX - 1 THEN i16_MAX - 1 ELSE deadzone
      deadzone_float == f32(clamped)
      raw_float == <<f32(raw_stick[1]), f32(raw_stick[2])>>
      length == Sqrt(Add(Mul(raw_float[1], raw_float[1]),
                         Mul(raw_float[2], raw_float[2])))
      normalized == <<Div(raw_float[1], length), Div(raw_float[2], length)>>
  IN [ deadzone_float |-> deadzone_float, length |-> length,
       normalized |-> normalized,
       ret |-> IF Less(deadzone_float, length)
                 THEN LET clipped == Min(length, f32(i16_MAX))
                          scale == Div(Sub(clipped, deadzone_float),
                                       Sub(f32(i16_MAX), deadzone_float))
                      IN <<Mul(normalized[1], scale), Mul(normalized[2], scale)>>
                 ELSE <<Zero(0), Zero(0)>> ]

\* Stick coordinates and deadzones: the ends of i16 and the values around
\* them, the two deadzones the library passes, and points whose length lies
\* within a rounding step of a deadzone.
StickValues == {i16_MIN, -1, 0, 1, 12987, 24230, 30000, i16_MAX}
Deadzones == {i16_MIN, 0, 7849, 8689, 16383, 27491, 30000, i16_MAX - 1, i16_MAX}

\* The stick value drawn at the start is normalised: the value returned, and
\* the length, the deadzone and the quotients by the length that the call
\* evaluated on its way.
Normalize ==
  /\ calc.op = "none" /\ "raw_stick" \in DOMAIN calc
  /\ LET r == normalize_raw_stick_value(calc.raw_stick, calc.deadzone)
     IN calc' = [ op |-> "normalize_raw_stick_value", raw_stick |-> calc.raw_stick,
                  deadzone |-> calc.deadzone, value |-> r.ret,
                  deadzone_float |-> r.deadzone_float, length |-> r.length,
                  divided_by_length |-> r.normalized ]
  /\ UNCHANGED <<statics, dll, modules, last, handle, call, global_vars>>

\* The arguments of the function under study are drawn at the start.
InitPure ==
  /\ dll = [n \in LibNames |-> Absent]
  /\ modules = [n \in LibNames |-> 0]
  /\ last = NoLoad
  /\ handle = NoHandle
  /\ call = NoCall
  /\ InitGlobal
  /\ statics = [ global_xinput_handle |-> NULL, opt_xinput_get_state |-> NullFn,
                 opt_xinput_set_state |-> NullFn,
                 xinput_status |-> xinput_UNINITIALIZED ]
  /\ \/ \E a \in XInputStates, b \in XInputStates, c \in XInputStates :
          calc = [op |-> "none", v |-> <<a, b, c>>]
     \/ \E x \in StickValues, y \in StickValues, deadzone \in Deadzones :
          calc = [op |-> "none", raw_stick |-> <<x, y>>, deadzone |-> deadzone]

NextPure ==
  \/ Eq
  \/ Normalize

SpecPure == InitPure /\ [][NextPure]_vars

----------------------------------------------------------------------------
(* The global handle and dynamic_load_xinput.  GLOBAL_XINPUT_HANDLE is a     *)
(* lazy_static: the first thread to dereference it runs                      *)
(* XInputHandle::load_default, threads that dereference it meanwhile wait,   *)
(* and every later dereference reads the stored value.                       *)

Loaded == GLOBAL_XINPUT_HANDLE.state = "done" /\ GLOBAL_XINPUT_HANDLE.value.ok

\* Another thread is inside the initialiser of the global.
Loading == GLOBAL_XINPUT_HANDLE.state = "running"

\* A thread enters dynamic_load_xinput.  The call remembers what the global
\* was like when it started.
DynamicLoadXinputCall(t) ==
  /\ pc[t] = "idle"
  /\ pc' = [pc EXCEPT ![t] = "deref"]
  /\ job' = [job EXCEPT ![t] =
               [ op |-> "dynamic_load_xinput", after_success |-> Loaded,
                 during_load |-> Loading ]]
  /\ UNCHANGED <<statics, calc, dll, modules, last, handle, call, GLOBAL_XINPUT_HANDLE, done>>

\* A dereference that runs the initialiser whatever state the global is in.
DerefStartUnguarded(t) ==
  /\ pc[t] = "deref"
  /\ GLOBAL_XINPUT_HANDLE' = [GLOBAL_XINPUT_HANDLE EXCEPT !.state = "running"]
  /\ pc' = [pc EXCEPT ![t] = "init"]
  /\ UNCHANGED <<statics, calc, dll, modules, last, handle, call, job, done>>

\* The dereference finds the global uninitialised: this thread initialises it.
DerefStart(t) ==
  /\ pc[t] = "deref"
  /\ GLOBAL_XINPUT_HANDLE.state = "uninit"
  /\ GLOBAL_XINPUT_HANDLE' = [GLOBAL_XINPUT_HANDLE EXCEPT !.state = "running"]
  /\ pc' = [pc EXCEPT ![t] = "init"]
  /\ UNCHANGED <<statics, calc, dll, modules, last, handle, call, job, done>>

\* The initialiser: XInputHandle::load_default(), its value stored for good.
DerefInit(t) ==
  /\ pc[t] = "init"
  /\ LET r == load_default
     IN /\ WithinRef(r)
        /\ GLOBAL_XINPUT_HANDLE' = [state |-> "done", value |-> r.ret]
        /\ last' = [ op |-> "load_default", name |-> "none", ret |-> r.ret,
                     tried |-> r.tried, acquired |-> r.acquired, freed |-> r.freed ]
        /\ modules' = ModulesAfter(r)
  /\ pc' = [pc EXCEPT ![t] = "deref"]
  /\ UNCHANGED <<statics, calc, dll, handle, call, job, done>>

\* dynamic_load_xinput's match on the initialised global, and its return.
dynamic_load_xinput(global) ==
  IF ~global.ok THEN [ok |-> FALSE, err |-> global.err] ELSE [ok |-> TRUE, err |-> "none"]

DynamicLoadXinputReturn(t) ==
  /\ pc[t] = "deref"
  /\ job[t].op = "dynamic_load_xinput"
  /\ GLOBAL_XINPUT_HANDLE.state = "done"
  /\ LET r == dynamic_load_xinput(GLOBAL_XINPUT_HANDLE.value)
     IN done' = [done EXCEPT ![t] =
                   [ op |-> job[t].op, after_success |-> job[t].after_success,
                     during_load |-> job[t].during_load,
                     ok |-> r.ok, err |-> r.err ]]
  /\ pc' = [pc EXCEPT ![t] = "idle"]
  /\ job' = [job EXCEPT ![t] = NoJob]
  /\ UNCHANGED <<statics, calc, dll, modules, last, handle, call, GLOBAL_XINPUT_HANDLE>>

NextGlobal ==
  \E t \in Threads :
    \/ DynamicLoadXinputCall(t)
    \/ DerefStart(t)
    \/ DerefInit(t)
    \/ DynamicLoadXinputReturn(t)

SpecGlobal == Init /\ [][NextGlobal]_vars

----------------------------------------------------------------------------
(* The deprecated free functions over the global handle: each dereferences  *)
(* GLOBAL_XINPUT_HANDLE, which initialises it if no one has, and matches on *)
(* the stored result.                                                        *)

\* xinput_get_state testing the slot before it looks at the global.
xinput_get_state_slot_first(global, user_index, native) ==
  IF global.ok \/ invalid_controller_id(user_index)
    THEN get_state(global.h, user_index, native)
    ELSE Returned(UsageErr(XInputUsageError, "XInputNotLoaded"), <<>>)

xinput_get_state(global, user_index, native) ==
  IF global.ok
    THEN get_state(global.h, user_index, native)
    ELSE Returned(UsageErr(XInputUsageError, "XInputNotLoaded"), <<>>)

xinput_set_state(global, user_index, left_motor_speed, right_motor_speed, native) ==
  IF global.ok
    THEN set_state(global.h, user_index, left_motor_speed, right_motor_speed, native)
    ELSE Returned(UsageErr(XInputUsageError, "XInputNotLoaded"), <<>>)

xinput_get_gamepad_battery_information(global, user_index, native) ==
  IF global.ok
    THEN get_gamepad_battery_information(global.h, user_index, native)
    ELSE Returned(UsageErr(XInputOptionalFnUsageError, "XInputNotLoaded"), <<>>)

xinput_get_headset_battery_information(global, user_index, native) ==
  IF global.ok
    THEN get_headset_battery_information(global.h, user_index, native)
    ELSE Returned(UsageErr(XInputOptionalFnUsageError, "XInputNotLoaded"), <<>>)

FreeFunctions ==
  { "xinput_get_state", "xinput_set_state",
    "xinput_get_gamepad_battery_information",
    "xinput_get_headset_battery_information" }

\* What the free functions are called with, and what the native side answers.
FreeUserIndices == {u32(0), u32_MAX}
FreeCodes == {u32(ERROR_SUCCESS), u32(ERROR_DEVICE_NOT_CONNECTED)}
FreeAnswers(outs, zeroed) ==
  [code : {u32(ERROR_SUCCESS)}, out : outs \ {zeroed}]
    \cup [code : FreeCodes \ {u32(ERROR_SUCCESS)}, out : {zeroed}]

\* A thread enters one of the free functions: it dereferences the global.
FreeFunctionCall(t, op) ==
  /\ pc[t] = "idle"
  /\ pc' = [pc EXCEPT ![t] = "deref"]
  /\ job' = [job EXCEPT ![t] = [NoJob EXCEPT !.op = op]]
  /\ UNCHANGED <<statics, calc, dll, modules, last, handle, call, GLOBAL_XINPUT_HANDLE, done>>

\* The match on the initialised global, the handle's method, and the return.
FreeFunctionReturned(t, user_index, r) ==
  /\ GLOBAL_XINPUT_HANDLE.state = "done"
  /\ call' = [op |-> job[t].op, user_index |-> user_index, res |-> r.res, native |-> r.native]
  /\ pc' = [pc EXCEPT ![t] = "idle"]
  /\ job' = [job EXCEPT ![t] = NoJob]
  /\ UNCHANGED <<statics, calc, dll, modules, last, handle, GLOBAL_XINPUT_HANDLE, done>>

XinputGetState(t) ==
  /\ pc[t] = "deref" /\ job[t].op = "xinput_get_state"
  /\ \E u \in FreeUserIndices, a \in FreeAnswers(NativeStates, ZeroState) :
       FreeFunctionReturned(t, u, xinput_get_state(GLOBAL_XINPUT_HANDLE.value, u, a))

XinputSetState(t) ==
  /\ pc[t] = "deref" /\ job[t].op = "xinput_set_state"
  /\ \E u \in FreeUserIndices, m \in DemoMotorSpeeds, a \in FreeAnswers({Unit}, NoValue) :
       FreeFunctionReturned(t, u,
         xinput_set_state(GLOBAL_XINPUT_HANDLE.value, u, m[1], m[2], a))

XinputGetGamepadBatteryInformation(t) ==
  /\ pc[t] = "deref" /\ job[t].op = "xinput_get_gamepad_battery_information"
  /\ \E u \in FreeUserIndices, a \in FreeAnswers(NativeBatteries, ZeroBattery) :
       FreeFunctionReturned(t, u,
         xinput_get_gamepad_battery_information(GLOBAL_XINPUT_HANDLE.value, u, a))

XinputGetHeadsetBatteryInformation(t) ==
  /\ pc[t] = "deref" /\ job[t].op = "xinput_get_headset_battery_information"
  /\ \E u \in FreeUserIndices, a \in FreeAnswers(NativeBatteries, ZeroBattery) :
       FreeFunctionReturned(t, u,
         xinput_get_headset_battery_information(GLOBAL_XINPUT_HANDLE.value, u, a))

\* The systems the free functions run on: no XInput library, or xinput1_4.dll
\* without XInputEnable, with the required entry points, or with the battery
\* query as well.
FreeExports ==
  { Required \ {enable_name}, Required,
    Required \cup {get_battery_information_name} }
FreeEnvs ==
  { [m \in LibNames |-> Absent] }
    \cup { [m \in LibNames |->
             IF m = xinput14 THEN [present |-> TRUE, exports |-> x] ELSE Absent] :
           x \in FreeExports }

InitFree ==
  /\ dll \in FreeEnvs
  /\ modules = [n \in LibNames |-> 0]
  /\ last = NoLoad
  /\ handle = NoHandle
  /\ call = NoCall
  /\ InitGlobal
  /\ InitStatics

NextFree ==
  \E t \in Threads :
    \/ DynamicLoadXinputCall(t)
    \/ \E op \in FreeFunctions : FreeFunctionCall(t, op)
    \/ DerefStart(t)
    \/ DerefInit(t)
    \/ DynamicLoadXinputReturn(t)
    \/ XinputGetState(t)
    \/ XinputSetState(t)
    \/ XinputGetGamepadBatteryInformation(t)
    \/ XinputGetHeadsetBatteryInformation(t)

SpecFree == InitFree /\ [][NextFree]_vars

----------------------------------------------------------------------------
(* The singleton of examples/demo.rs.  Its dynamic_load_xinput claims the    *)
(* status register with a compare-and-swap, looks for a library, resolves    *)
(* XInputGetState and XInputSetState into the static function pointers and   *)
(* closes with a second compare-and-swap; it returns nothing.  Every access  *)
(* to a static is a step of its own.                                         *)

\* The candidate list of the demo, in the order of its for loop.
DemoLibNames == <<xinput14, xinput91, xinput13>>

\* A swap that does not compare: the new value is stored whatever the register
\* holds.
compare_exchange_unconditional(reg, current, new) ==
  [ok |-> TRUE, seen |-> reg, stored |-> new]

\* A swap that reports Ok whatever the register holds, and stores nothing.
compare_exchange_spurious(reg, current, new) ==
  [ok |-> TRUE, seen |-> reg, stored |-> reg]

\* AtomicUsize::compare_exchange: Ok(previous) and the new value stored, or
\* Err(actual) and the register left alone.
compare_exchange(reg, current, new) ==
  IF reg = current
    THEN [ok |-> TRUE, seen |-> reg, stored |-> new]
    ELSE [ok |-> FALSE, seen |-> reg, stored |-> reg]

\* The for loop without its break: every candidate is tried and the handle is
\* what LoadLibraryW returned for the last one.
RECURSIVE demo_load_library_no_break(_)
demo_load_library_no_break(i) ==
  IF i > Len(DemoLibNames)
    THEN [xinput_handle |-> NULL, tried |-> <<>>]
    ELSE LET xinput_handle == LoadLibraryW(DemoLibNames[i])
             rest == demo_load_library_no_break(i + 1)
         IN [ xinput_handle |->
                IF i = Len(DemoLibNames) THEN xinput_handle ELSE rest.xinput_handle,
              tried |-> <<DemoLibNames[i]>> \o rest.tried ]

\* The for loop over the candidates: LoadLibraryW until one is not null.
RECURSIVE demo_load_library_from(_)
demo_load_library_from(i) ==
  IF i > Len(DemoLibNames)
    THEN [xinput_handle |-> NULL, tried |-> <<>>]
    ELSE LET xinput_handle == LoadLibraryW(DemoLibNames[i])
         IN IF xinput_handle # NULL
              THEN [xinput_handle |-> xinput_handle, tried |-> <<DemoLibNames[i]>>]
              ELSE LET rest == demo_load_library_from(i + 1)
                   IN [ xinput_handle |-> rest.xinput_handle,
                        tried |-> <<DemoLibNames[i]>> \o rest.tried ]

\* The last load attempt of the demo that finished, if it failed.
DemoFailedBefore == last.op = "demo_dynamic_load_xinput" /\ ~last.ret.ok

\* A call of the demo's dynamic_load_xinput returns: it returns no value.
DemoReturn(t) ==
  /\ pc' = [pc EXCEPT ![t] = "idle"]
  /\ job' = [job EXCEPT ![t] = NoJob]
  /\ UNCHANGED done

\* A load attempt of the demo finishes: what it did is kept in `last`.
DemoAttempted(t, ok, err, freed) ==
  last' = [ op |-> "demo_dynamic_load_xinput", name |-> "none",
            ret |-> [ok |-> ok, err |-> err],
            tried |-> job[t].tried,
            acquired |-> IF job[t].xinput_handle # NULL
                           THEN <<job[t].xinput_handle>> ELSE <<>>,
            freed |-> freed,
            env |-> job[t].env,
            after_failure |-> job[t].after_failure ]

\* dynamic_load_xinput, its first statement: the compare-and-swap from
\* UNINITIALIZED to LOADING and the match on its result.
DemoDynamicLoadXinput(t) ==
  /\ pc[t] = "idle"
  /\ LET r == compare_exchange(statics.xinput_status, xinput_UNINITIALIZED, xinput_LOADING)
     IN /\ statics' = [statics EXCEPT !.xinput_status = r.stored]
        /\ IF r.ok
             THEN /\ pc' = [pc EXCEPT ![t] = "load_library"]
                  /\ job' = [job EXCEPT ![t] =
                               [ op |-> "demo_dynamic_load_xinput",
                                 xinput_handle |-> NULL, tried |-> <<>>,
                                 env |-> <<>>, after_failure |-> DemoFailedBefore ]]
                  /\ UNCHANGED done
             ELSE \* Err(LOADING), Err(ACTIVE), Err(_): a log line, nothing else
                  DemoReturn(t)
  /\ UNCHANGED <<calc, dll, modules, last, handle, call, GLOBAL_XINPUT_HANDLE>>

\* The for loop: the first candidate LoadLibraryW finds, or null.
DemoLoadLibrary(t) ==
  /\ pc[t] = "load_library"
  /\ LET r == demo_load_library_from(1)
         acquired == IF r.xinput_handle # NULL THEN <<r.xinput_handle>> ELSE <<>>
         after == [acquired |-> acquired, freed |-> <<>>]
     IN /\ WithinRef(after)
        /\ modules' = ModulesAfter(after)
        /\ job' = [job EXCEPT ![t].xinput_handle = r.xinput_handle,
                              ![t].tried = r.tried, ![t].env = dll]
        /\ pc' = [pc EXCEPT ![t] =
                    IF r.xinput_handle = NULL THEN "no_dll" ELSE "get_state_ptr"]
  /\ UNCHANGED <<statics, calc, dll, last, handle, call, GLOBAL_XINPUT_HANDLE, done>>

\* No library was found: the register goes back from LOADING to UNINITIALIZED.
DemoNoDll(t) ==
  /\ pc[t] = "no_dll"
  /\ LET r == compare_exchange(statics.xinput_status, xinput_LOADING, xinput_UNINITIALIZED)
     IN statics' = [statics EXCEPT !.xinput_status = r.stored]
  /\ DemoAttempted(t, FALSE, "NoDLL", <<>>)
  /\ DemoReturn(t)
  /\ UNCHANGED <<calc, dll, modules, handle, call, GLOBAL_XINPUT_HANDLE>>

\* GetProcAddress of XInputGetState; the static pointer is written if found.
DemoGetStatePtr(t) ==
  /\ pc[t] = "get_state_ptr"
  /\ LET get_state_ptr == GetProcAddress(job[t].xinput_handle, get_state_name)
     IN statics' = IF get_state_ptr # NullFn
                     THEN [statics EXCEPT !.opt_xinput_get_state = get_state_ptr]
                     ELSE statics
  /\ pc' = [pc EXCEPT ![t] = "set_state_ptr"]
  /\ UNCHANGED <<calc, dll, modules, last, handle, call, GLOBAL_XINPUT_HANDLE, job, done>>

\* GetProcAddress of XInputSetState; the static pointer is written if found.
DemoSetStatePtr(t) ==
  /\ pc[t] = "set_state_ptr"
  /\ LET set_state_ptr == GetProcAddress(job[t].xinput_handle, set_state_name)
     IN statics' = IF set_state_ptr # NullFn
                     THEN [statics EXCEPT !.opt_xinput_set_state = set_state_ptr]
                     ELSE statics
  /\ pc' = [pc EXCEPT ![t] = "pointers"]
  /\ UNCHANGED <<calc, dll, modules, last, handle, call, GLOBAL_XINPUT_HANDLE, job, done>>

\* Some: the static pointer is set.
is_some(opt) == opt # NullFn

\* A test that is content with either pointer.
demo_pointers_loaded_either(opt_get, opt_set) == is_some(opt_get) \/ is_some(opt_set)

\* The test of the two static pointers.
demo_pointers_loaded(opt_get, opt_set) == is_some(opt_get) /\ is_some(opt_set)

\* The test of the two static pointers, and the first write of either branch:
\* the global handle is set, or the first pointer is cleared.
DemoPointers(t) ==
  /\ pc[t] = "pointers"
  /\ IF demo_pointers_loaded(statics.opt_xinput_get_state, statics.opt_xinput_set_state)
       THEN /\ statics' = [statics EXCEPT !.global_xinput_handle = job[t].xinput_handle]
            /\ pc' = [pc EXCEPT ![t] = "activate"]
       ELSE /\ statics' = [statics EXCEPT !.opt_xinput_get_state = NullFn]
            /\ pc' = [pc EXCEPT ![t] = "clear_set_state"]
  /\ UNCHANGED <<calc, dll, modules, last, handle, call, GLOBAL_XINPUT_HANDLE, job, done>>

\* Success: the register goes from LOADING to ACTIVE.
DemoActivate(t) ==
  /\ pc[t] = "activate"
  /\ LET r == compare_exchange(statics.xinput_status, xinput_LOADING, xinput_ACTIVE)
     IN statics' = [statics EXCEPT !.xinput_status = r.stored]
  /\ DemoAttempted(t, TRUE, "none", <<>>)
  /\ DemoReturn(t)
  /\ UNCHANGED <<calc, dll, modules, handle, call, GLOBAL_XINPUT_HANDLE>>

\* Failure: the second pointer is cleared,
DemoClearSetState(t) ==
  /\ pc[t] = "clear_set_state"
  /\ statics' = [statics EXCEPT !.opt_xinput_set_state = NullFn]
  /\ pc' = [pc EXCEPT ![t] = "free_library"]
  /\ UNCHANGED <<calc, dll, modules, last, handle, call, GLOBAL_XINPUT_HANDLE, job, done>>

\* the library is released with FreeLibrary,
DemoFreeLibrary(t) ==
  /\ pc[t] = "free_library"
  /\ modules' = ModulesAfter([acquired |-> <<>>, freed |-> <<job[t].xinput_handle>>])
  /\ pc' = [pc EXCEPT ![t] = "no_pointers"]
  /\ UNCHANGED <<statics, calc, dll, last, handle, call, GLOBAL_XINPUT_HANDLE, job, done>>

\* A return that leaves the register at LOADING.
DemoNoPointersNoReset(t) ==
  /\ pc[t] = "no_pointers"
  /\ DemoAttempted(t, FALSE, "NoPointers", <<job[t].xinput_handle>>)
  /\ DemoReturn(t)
  /\ UNCHANGED <<statics, calc, dll, modules, handle, call, GLOBAL_XINPUT_HANDLE>>

\* and the register goes back from LOADING to UNINITIALIZED.
DemoNoPointers(t) ==
  /\ pc[t] = "no_pointers"
  /\ LET r == compare_exchange(statics.xinput_status, xinput_LOADING, xinput_UNINITIALIZED)
     IN statics' = [statics EXCEPT !.xinput_status = r.stored]
  /\ DemoAttempted(t, FALSE, "NoPointers", <<job[t].xinput_handle>>)
  /\ DemoReturn(t)
  /\ UNCHANGED <<calc, dll, modules, handle, call, GLOBAL_XINPUT_HANDLE>>

\* What the demo's queries are called with, and what the native side answers.
DemoUserIndices == {u32(0), u32(4)}
DemoCodes == {u32(ERROR_SUCCESS), u32(ERROR_DEVICE_NOT_CONNECTED), u32(ERROR_EMPTY)}
DemoAnswers(outs, zeroed) ==
  [code : {u32(ERROR_SUCCESS)}, out : outs \ {zeroed}]
    \cup [code : DemoCodes \ {u32(ERROR_SUCCESS)}, out : {zeroed}]

\* Option::unwrap of a static pointer that is None.
Panic == [kind |-> "panic"]

DemoCalled(t, op, user_index, res, native) ==
  /\ call' = [op |-> op, user_index |-> user_index, res |-> res, native |-> native]
  /\ pc' = [pc EXCEPT ![t] = "idle"]
  /\ job' = [job EXCEPT ![t] = NoJob]

\* xinput_get_state of the demo: the test of the status register.
DemoXinputGetState(t) ==
  /\ pc[t] = "idle"
  /\ IF statics.xinput_status = xinput_ACTIVE
       THEN /\ pc' = [pc EXCEPT ![t] = "get_state_func"]
            /\ job' = [job EXCEPT ![t] = [op |-> "demo_xinput_get_state"]]
            /\ UNCHANGED call
       ELSE \E user_index \in DemoUserIndices :
              DemoCalled(t, "demo_xinput_get_state", user_index, None, <<>>)
  /\ UNCHANGED <<statics, calc, dll, modules, last, handle, GLOBAL_XINPUT_HANDLE, done>>

\* The unwrap of the static pointer and the call through it.
DemoGetStateFunc(t) ==
  /\ pc[t] = "get_state_func"
  /\ \E user_index \in DemoUserIndices, native \in DemoAnswers(NativeStates, ZeroState) :
       LET func == statics.opt_xinput_get_state
           return_status == native.code
       IN IF ~is_some(func)
            THEN DemoCalled(t, "demo_xinput_get_state", user_index, Panic, <<>>)
            ELSE DemoCalled(t, "demo_xinput_get_state", user_index,
                   CASE return_status = u32(ERROR_SUCCESS) -> Some(native.out)
                     [] return_status = u32(ERROR_DEVICE_NOT_CONNECTED) -> None
                     [] OTHER -> None,
                   <<NativeCall(func, <<user_index>>, native)>>)
  /\ UNCHANGED <<statics, calc, dll, modules, last, handle, GLOBAL_XINPUT_HANDLE, done>>

\* xinput_set_state of the demo: the test of the status register.
DemoXinputSetState(t) ==
  /\ pc[t] = "idle"
  /\ IF statics.xinput_status = xinput_ACTIVE
       THEN /\ pc' = [pc EXCEPT ![t] = "set_state_func"]
            /\ job' = [job EXCEPT ![t] = [op |-> "demo_xinput_set_state"]]
            /\ UNCHANGED call
       ELSE \E user_index \in DemoUserIndices :
              DemoCalled(t, "demo_xinput_set_state", user_index, None, <<>>)
  /\ UNCHANGED <<statics, calc, dll, modules, last, handle, GLOBAL_XINPUT_HANDLE, done>>

\* The unwrap of the static pointer and the call through it.
DemoSetStateFunc(t) ==
  /\ pc[t] = "set_state_func"
  /\ \E user_index \in DemoUserIndices, m \in DemoMotorSpeeds,
        native \in DemoAnswers({Unit}, NoValue) :
       LET input == [wLeftMotorSpeed |-> m[1], wRightMotorSpeed |-> m[2]]
           func == statics.opt_xinput_set_state
           return_status == native.code
       IN IF ~is_some(func)
            THEN DemoCalled(t, "demo_xinput_set_state", user_index, Panic, <<>>)
            ELSE DemoCalled(t, "demo_xinput_set_state", user_index,
                   CASE return_status = u32(ERROR_SUCCESS) -> Some(Unit)
                     [] return_status = u32(ERROR_DEVICE_NOT_CONNECTED) -> None
                     [] OTHER -> None,
                   <<NativeCall(func, <<user_index, input>>, native)>>)
  /\ UNCHANGED <<statics, calc, dll, modules, last, handle, GLOBAL_XINPUT_HANDLE, done>>

\* The environment: a library of the candidate list that was not on the system
\* is installed.  Nothing is removed or replaced while the process runs.
DemoExportChoices == {{}, {get_state_name}, {get_state_name, set_state_name}}
DemoCandidates == {DemoLibNames[i] : i \in DOMAIN DemoLibNames}
DemoEnvs ==
  { e \in [LibNames -> {Absent} \cup [present : {TRUE}, exports : DemoExportChoices]] :
      /\ \A n \in LibNames \ DemoCandidates : ~e[n].present
      /\ Cardinality({n \in LibNames : e[n].present}) <= MaxPresent }

Install(n, x) ==
  /\ ~dll[n].present
  /\ Cardinality({m \in LibNames : dll[m].present}) < MaxPresent
  /\ dll' = [dll EXCEPT ![n] = [present |-> TRUE, exports |-> x]]
  /\ UNCHANGED <<statics, calc, modules, last, handle, call, global_vars>>

InitDemo ==
  /\ dll \in DemoEnvs
  /\ modules = [n \in LibNames |-> 0]
  /\ last = NoLoad
  /\ handle = NoHandle
  /\ call = NoCall
  /\ GLOBAL_XINPUT_HANDLE = Uninitialised
  /\ pc = [t \in Threads |-> "idle"]
  /\ job = [t \in Threads |-> NoJob]
  /\ done = [t \in Threads |-> NoRet]
  /\ InitStatics

NextDemo ==
  \/ \E t \in Threads :
       \/ DemoDynamicLoadXinput(t)
       \/ DemoLoadLibrary(t)
       \/ DemoNoDll(t)
       \/ DemoGetStatePtr(t)
       \/ DemoSetStatePtr(t)
       \/ DemoPointers(t)
       \/ DemoActivate(t)
       \/ DemoClearSetState(t)
       \/ DemoFreeLibrary(t)
       \/ DemoNoPointers(t)
       \/ DemoXinputGetState(t)
       \/ DemoGetStateFunc(t)
       \/ DemoXinputSetState(t)
       \/ DemoSetStateFunc(t)
  \/ \E n \in DemoCandidates, x \in DemoExportChoices : Install(n, x)

SpecDemo == InitDemo /\ [][NextDemo]_vars

\* The thread that has won the register keeps running and the calls it makes
\* to the loader return: each statement of the loading arm is taken in the end.
\* Nothing is assumed of the callers: no thread has to call anything.
SpecDemoFair ==
  /\ SpecDemo
  /\ \A t \in Threads :
       WF_vars( \/ DemoLoadLibrary(t) \/ DemoNoDll(t)
                \/ DemoGetStatePtr(t) \/ DemoSetStatePtr(t)
                \/ DemoPointers(t) \/ DemoActivate(t)
                \/ DemoClearSetState(t) \/ DemoFreeLibrary(t)
                \/ DemoNoPointers(t) )

----------------------------------------------------------------------------
(* Properties. *)

HandleOps ==
  { "get_state", "get_state_ex", "set_state", "get_capabilities",
    "get_capabilities_ex", "get_keystroke",
    "get_gamepad_battery_information", "get_headset_battery_information" }

\* The last operation was called with a slot in {0, 1, 2, 3}.
ValidSlot == call.user_index.hi = 0 /\ call.user_index.lo \in 0 .. 3

\* The function pointer of the handle an operation calls through.
PointerOf(op) ==
  CASE op = "get_state" -> handle.xinput_get_state
    [] op = "set_state" -> handle.xinput_set_state
    [] op = "get_capabilities" -> handle.xinput_get_capabilities
    [] op = "get_state_ex" -> handle.opt_xinput_get_state_ex
    [] op = "get_capabilities_ex" -> handle.opt_xinput_get_capabilities_ex
    [] op = "get_keystroke" -> handle.opt_xinput_get_keystroke
    [] op = "get_gamepad_battery_information" ->
         handle.opt_xinput_get_battery_information
    [] op = "get_headset_battery_information" ->
         handle.opt_xinput_get_battery_information

Code(n) == [hi |-> 0, lo |-> n]

\* C1: for every user_index >= 4 (4, 5, 100 and u32::MAX among them) each of
\* the eight operations of a handle returns InvalidControllerID and calls
\* through no function pointer, whether or not its entry point is bound.
C1_InvalidControllerID ==
  (call.op \in HandleOps /\ ~ValidSlot) =>
    /\ call.res.tag = "Err"
    /\ call.res.err = "InvalidControllerID"
    /\ call.native = <<>>

\* C1's case: get_keystroke(u32::MAX) on a handle with XInputGetKeystroke bound.
C1_Witness ==
  /\ call.op = "get_keystroke"
  /\ call.user_index = [hi |-> 65535, lo |-> 65535]
  /\ handle.opt_xinput_get_keystroke # NullFn
  /\ call.res.err = "InvalidControllerID"
  /\ call.native = <<>>

\* The modules a load call acquired and still holds when it returns.
StillHeld ==
  {n \in LibNames : Count(last.acquired, n) > Count(last.freed, n)}

\* C2: a load attempt that loaded a library lacking a required symbol is
\* reported as NoPointers and has released the library when it returns: after
\* a failed load no module acquired by that load is still held.
C2_FailedLoadReleasesLibrary ==
  (last.op \in {"load", "load_default"} /\ ~last.ret.ok /\ last.acquired # <<>>) =>
    /\ last.ret.err = "NoPointers"
    /\ StillHeld = {}

\* Some library the last load call tried was loaded by the OS loader.
SomeTriedLoaded == \E i \in DOMAIN last.tried : dll[last.tried[i]].present

\* C3: a failed load reports NoDLL exactly when every candidate it tried failed
\* to load, and NoPointers exactly when a library loaded but lacked a required
\* symbol; for load(name) and for load_default().
C3_FailureTaxonomy ==
  (last.op \in {"load", "load_default"} /\ ~last.ret.ok) =>
    /\ last.ret.err = "NoDLL" <=> ~SomeTriedLoaded
    /\ last.ret.err = "NoPointers" <=> SomeTriedLoaded

\* The order C4 states, and the candidates whose load succeeds: the library is
\* present and exports the four required entry points.
C4_Order ==
  <<"xinput1_4.dll", "xinput1_3.dll", "xinput1_2.dll", "xinput1_1.dll",
    "xinput9_1_0.dll">>
C4_Succeeds(i) ==
  /\ dll[C4_Order[i]].present
  /\ { "XInputEnable", "XInputGetState", "XInputSetState",
       "XInputGetCapabilities" } \subseteq dll[C4_Order[i]].exports

C5_Exports == IF dll[last.name].present THEN dll[last.name].exports ELSE {}
C5_Recorded(ptr, key) ==
  IF key \in C5_Exports THEN ptr = [lib |-> last.name, sym |-> key] ELSE ptr = NullFn

\* C5: load returns a handle iff the four required entry points resolve; a
\* missing optional entry point never fails the load and is recorded as absent,
\* and an optional entry point is recorded as present only if its own
\* resolution succeeded.
C5_RequiredAndOptional ==
  last.op = "load" =>
    /\ last.ret.ok <=>
         { "XInputEnable", "XInputGetState", "XInputSetState",
           "XInputGetCapabilities" } \subseteq C5_Exports
    /\ last.ret.ok =>
         /\ C5_Recorded(last.ret.h.opt_xinput_get_state_ex, "#100")
         /\ C5_Recorded(last.ret.h.opt_xinput_get_capabilities_ex, "#108")
         /\ C5_Recorded(last.ret.h.opt_xinput_get_keystroke, "XInputGetKeystroke")
         /\ C5_Recorded(last.ret.h.opt_xinput_get_battery_information,
                        "XInputGetBatteryInformation")
         /\ C5_Recorded(last.ret.h.opt_xinput_get_audio_device_ids,
                        "XInputGetAudioDeviceIds")
         /\ C5_Recorded(last.ret.h.opt_xinput_get_dsound_audio_device_guids,
                        "XInputGetDSoundAudioDeviceGuids")

\* C5's case: a load that succeeded on a library without ordinal 108 and with
\* XInputGetKeystroke.
C5_Witness ==
  /\ last.op = "load"
  /\ last.ret.ok
  /\ "#108" \notin C5_Exports
  /\ last.ret.h.opt_xinput_get_capabilities_ex = NullFn
  /\ last.ret.h.opt_xinput_get_keystroke # NullFn

OptionalOps ==
  { "get_state_ex", "get_capabilities_ex", "get_keystroke",
    "get_gamepad_battery_information", "get_headset_battery_information" }

\* An optional operation was called for a valid slot on a handle whose entry
\* point was not resolved.
UnboundOptionalCall ==
  call.op \in OptionalOps /\ ValidSlot /\ PointerOf(call.op) = NullFn

\* C6 as stated: for a valid slot on a handle whose optional entry point was not
\* resolved, each of the five optional operations returns FunctionNotLoaded and
\* makes no native call.
C6_FunctionNotLoaded ==
  UnboundOptionalCall =>
    /\ call.res.tag = "Err"
    /\ call.res.err = "FunctionNotLoaded"
    /\ call.native = <<>>

\* C6 amended: none of the five makes a native call; get_keystroke and the two
\* battery queries return FunctionNotLoaded, get_state_ex and
\* get_capabilities_ex return XInputNotLoaded.
C6_NotLoadedErrors ==
  UnboundOptionalCall =>
    /\ call.res.tag = "Err"
    /\ call.native = <<>>
    /\ call.res.err =
         IF call.op \in {"get_state_ex", "get_capabilities_ex"}
           THEN "XInputNotLoaded"
           ELSE "FunctionNotLoaded"

\* C6's case: get_state_ex for slot 0 on a handle without ordinal 100.
C6_Witness ==
  /\ UnboundOptionalCall
  /\ call.op = "get_state_ex"
  /\ call.user_index = [hi |-> 0, lo |-> 0]
  /\ call.res.err = "XInputNotLoaded"

\* What Ok carries for an operation whose native call filled in `out`.
C7_Carried(op, out) ==
  CASE op \in {"get_state", "get_state_ex"} -> [kind |-> "XInputState", raw |-> out]
    [] op = "set_state" -> [kind |-> "()"]
    [] op \in {"get_capabilities", "get_capabilities_ex"} -> out

\* C7: for a valid slot, get_state, set_state and get_capabilities (and
\* get_state_ex, get_capabilities_ex when bound) make one native call and map
\* ERROR_SUCCESS to Ok with the record the call filled in,
\* ERROR_DEVICE_NOT_CONNECTED to DeviceNotConnected, and any other code c to
\* UnknownError(c).
C7_ReturnCodeMapping ==
  ( /\ call.op \in { "get_state", "set_state", "get_capabilities",
                     "get_state_ex", "get_capabilities_ex" }
    /\ ValidSlot
    /\ PointerOf(call.op) # NullFn ) =>
    /\ Len(call.native) = 1
    /\ call.native[1].fn = PointerOf(call.op)
    /\ LET c == call.native[1].code
       IN IF c = Code(0)
            THEN /\ call.res.tag = "Ok"
                 /\ call.res.val = C7_Carried(call.op, call.native[1].out)
            ELSE IF c = Code(1167)
              THEN call.res.tag = "Err" /\ call.res.err = "DeviceNotConnected"
              ELSE /\ call.res.tag = "Err"
                   /\ call.res.err = "UnknownError"
                   /\ call.res.code = c

\* C7's case: set_state for slot 3 whose native call returned 0xFFFFFFFF.
C7_Witness ==
  /\ call.op = "set_state"
  /\ call.user_index = [hi |-> 0, lo |-> 3]
  /\ Len(call.native) = 1
  /\ call.native[1].code = [hi |-> 65535, lo |-> 65535]
  /\ call.res.err = "UnknownError"
  /\ call.res.code = [hi |-> 65535, lo |-> 65535]

\* C8: for a valid slot with XInputGetBatteryInformation bound, the two battery
\* queries return DeviceNotConnected, not UnknownError, when the native call
\* reports ERROR_DEVICE_NOT_CONNECTED.
C8_BatteryDeviceNotConnected ==
  ( /\ call.op \in { "get_gamepad_battery_information",
                     "get_headset_battery_information" }
    /\ ValidSlot
    /\ Len(call.native) = 1
    /\ call.native[1].code = Code(1167) ) =>
    /\ call.res.tag = "Err"
    /\ call.res.err = "DeviceNotConnected"

\* C9: for a valid slot with XInputGetKeystroke bound, get_keystroke returns
\* Ok(None) exactly when the native code is ERROR_EMPTY and Ok(Some(keystroke))
\* exactly when it is ERROR_SUCCESS; every other operation surfaces ERROR_EMPTY
\* as UnknownError carrying that code.
C9_KeystrokeEmpty ==
  /\ (call.op = "get_keystroke" /\ ValidSlot /\ PointerOf(call.op) # NullFn) =>
       /\ Len(call.native) = 1
       /\ LET c == call.native[1].code
          IN /\ (call.res.tag = "Ok" /\ call.res.val = [kind |-> "None"])
                  <=> c = Code(4306)
             /\ ( /\ call.res.tag = "Ok"
                  /\ call.res.val = [kind |-> "Some", v |-> call.native[1].out] )
                  <=> c = Code(0)
  /\ ( /\ call.op \in HandleOps \ {"get_keystroke"}
       /\ call.native # <<>>
       /\ call.native[1].code = Code(4306) ) =>
       /\ call.res.tag = "Err"
       /\ call.res.err = "UnknownError"
       /\ call.res.code = Code(4306)

\* C9's case: get_keystroke for slot 0 whose native call returned ERROR_EMPTY.
C9_Witness ==
  /\ call.op = "get_keystroke"
  /\ ValidSlot
  /\ Len(call.native) = 1
  /\ call.native[1].code = Code(4306)
  /\ call.res.tag = "Ok"
  /\ call.res.val = [kind |-> "None"]

\* C10: after the global load has completed successfully, every later call of
\* dynamic_load_xinput returns the AlreadyActive failure and leaves the system
\* active.
C10_AlreadyActive ==
  \A t \in Threads :
    (done[t].op = "dynamic_load_xinput" /\ done[t].after_success) =>
      /\ ~done[t].ok
      /\ done[t].err = "AlreadyActive"
      /\ Loaded

\* C11: a dynamic_load_xinput call that starts while another thread's load is
\* in progress fails with AlreadyLoading, never with AlreadyActive and never
\* with the outcome of the load it would have had to wait for.
C11_AlreadyLoading ==
  \A t \in Threads :
    (done[t].op = "dynamic_load_xinput" /\ done[t].during_load) =>
      /\ ~done[t].ok
      /\ done[t].err = "AlreadyLoading"

\* The candidates of the demo's loader in its order; the one its search finds in
\* an environment is the first that is present, and the environment is usable
\* when that library exports XInputGetState and XInputSetState.
C12_Candidates == <<"xinput1_4.dll", "xinput9_1_0.dll", "xinput1_3.dll">>
C12_Found(env) ==
  {i \in 1 .. 3 : env[C12_Candidates[i]].present
                    /\ \A j \in 1 .. (i - 1) : ~env[C12_Candidates[j]].present}
C12_Usable(env) ==
  \E i \in C12_Found(env) :
    {"XInputGetState", "XInputSetState"} \subseteq env[C12_Candidates[i]].exports

\* The threads between the winning compare-and-swap and the closing one.
DemoLoaders ==
  { t \in Threads :
      pc[t] \in { "load_library", "no_dll", "get_state_ptr", "set_state_ptr",
                   "pointers", "activate", "clear_set_state", "free_library",
                   "no_pointers" } }

C13_ActiveForever ==
  [][ /\ statics.xinput_status = 2 =>
           /\ statics'.xinput_status = 2
           /\ statics'.opt_xinput_get_state = statics.opt_xinput_get_state
           /\ statics'.opt_xinput_set_state = statics.opt_xinput_set_state
           /\ statics'.global_xinput_handle = statics.global_xinput_handle
           /\ \A n \in LibNames :
                modules[n] = IF n = statics.global_xinput_handle THEN 1 ELSE 0
      /\ (\E t \in Threads : pc[t] = "activate" /\ pc'[t] = "idle") =>
           /\ statics.xinput_status = 1
           /\ statics'.xinput_status = 2
    ]_vars

\* C13's case: the register is Active, a query has called through the bound
\* pointer, and a thread is in another query while a library is installed that
\* was not there when the load succeeded.
C13_Witness ==
  /\ statics.xinput_status = 2
  /\ call.op = "demo_xinput_set_state"
  /\ call.native # <<>>
  /\ \E t \in Threads : pc[t] = "get_state_func"
  /\ last.ret.ok
  /\ last.env # dll

\* The global load has been made and has failed.
GlobalLoadFailed ==
  GLOBAL_XINPUT_HANDLE.state = "done" /\ ~GLOBAL_XINPUT_HANDLE.value.ok

\* C14: once the global load has failed, xinput_get_state, xinput_set_state,
\* xinput_get_gamepad_battery_information and
\* xinput_get_headset_battery_information return XInputNotLoaded for every
\* argument, slots of 4 and more included, and make no native call.
C14_NotLoadedAfterFailedLoad ==
  ( /\ call.op \in { "xinput_get_state", "xinput_set_state",
                     "xinput_get_gamepad_battery_information",
                     "xinput_get_headset_battery_information" }
    /\ GlobalLoadFailed ) =>
    /\ call.res.tag = "Err"
    /\ call.res.err = "XInputNotLoaded"
    /\ call.native = <<>>

\* C14's case: the load failed on a library without XInputEnable, and
\* xinput_get_state(u32::MAX) returned XInputNotLoaded.
C14_Witness ==
  /\ GlobalLoadFailed
  /\ \E n \in LibNames : dll[n].present
  /\ call.op = "xinput_get_state"
  /\ call.user_index = [hi |-> 65535, lo |-> 65535]
  /\ call.res.err = "XInputNotLoaded"
  /\ call.native = <<>>

\* No call of dynamic_load_xinput has been made: none has returned and no thread
\* is in one.
NoDynamicLoadYet ==
  \A t \in Threads : done[t].op = "none" /\ job[t].op # "dynamic_load_xinput"

\* C15: as long as dynamic_load_xinput has not been called, xinput_get_state and
\* xinput_set_state return XInputNotLoaded, load no library and make no native
\* call.
C15_NotLoadedBeforeLoad ==
  (call.op \in {"xinput_get_state", "xinput_set_state"} /\ NoDynamicLoadYet) =>
    /\ call.res.tag = "Err"
    /\ call.res.err = "XInputNotLoaded"
    /\ call.native = <<>>
    /\ \A n \in LibNames : modules[n] = 0

\* The order C16 states, and the candidates of it that load: the library is
\* present and exports the four required entry points.
C16_Order ==
  <<"xinput9_1_0.dll", "xinput1_4.dll", "xinput1_3.dll", "xinput1_2.dll",
    "xinput1_1.dll">>
C16_Loads(i) ==
  /\ dll[C16_Order[i]].present
  /\ { "XInputEnable", "XInputGetState", "XInputSetState",
       "XInputGetCapabilities" } \subseteq dll[C16_Order[i]].exports

\* C16: the global load searches xinput9_1_0, 1_4, 1_3, 1_2, 1_1 in that order
\* and binds the first that loads; when xinput9_1_0.dll and xinput1_4.dll both
\* load, the global handle is bound to xinput9_1_0.dll.
C16_GlobalSearchOrder ==
  GLOBAL_XINPUT_HANDLE.state = "done" =>
    \A i \in 1 .. 5 :
      (C16_Loads(i) /\ \A j \in 1 .. (i - 1) : ~C16_Loads(j)) =>
        /\ GLOBAL_XINPUT_HANDLE.value.ok
        /\ GLOBAL_XINPUT_HANDLE.value.h.handle = C16_Order[i]
        /\ GLOBAL_XINPUT_HANDLE.value.h.xinput_get_state.lib = C16_Order[i]

\* A button method was applied to the state the last get_state returned for a
\* connected slot.
ButtonOfGetState ==
  /\ calc.op \in {"north_button", "south_button"}
  /\ call.op = "get_state"
  /\ call.res.tag = "Ok"
  /\ calc.self = call.res.val

\* Bit k of a button mask.
Bit(w, k) == (w \div (2 ^ k)) % 2 = 1

\* C17 as stated: get_state on a connected slot whose native state has packet
\* number 7 and button mask 0x1000 returns a state with packet number 7 whose
\* north_button() is true.
C17_NorthButtonOfMask1000 ==
  ( /\ ButtonOfGetState
    /\ calc.op = "north_button"
    /\ call.native[1].out.dwPacketNumber = 7
    /\ call.native[1].out.Gamepad.wButtons = 4096 ) =>
    /\ calc.self.raw.dwPacketNumber = 7
    /\ calc.value = TRUE

\* C17 amended: the state get_state returns carries the packet number and the
\* button mask of the native state; north_button() is bit 0x8000 of the mask
\* and south_button() is bit 0x1000, so for packet 7 with mask 0x1000 the state
\* has packet number 7, south_button() true and north_button() false.
C17_ButtonsOfGetState ==
  ButtonOfGetState =>
    /\ calc.self.raw.dwPacketNumber = call.native[1].out.dwPacketNumber
    /\ calc.op = "north_button" =>
         (calc.value <=> Bit(call.native[1].out.Gamepad.wButtons, 15))
    /\ calc.op = "south_button" =>
         (calc.value <=> Bit(call.native[1].out.Gamepad.wButtons, 12))
    /\ call.native[1].out.Gamepad.wButtons = 4096 =>
         (calc.value <=> calc.op = "south_button")

\* C17's case: north_button() of the state returned for packet 7, mask 0x1000.
C17_Witness ==
  /\ ButtonOfGetState
  /\ calc.op = "north_button"
  /\ call.native[1].out.dwPacketNumber = 7
  /\ call.native[1].out.Gamepad.wButtons = 4096
  /\ calc.self.raw.dwPacketNumber = 7
  /\ calc.value = FALSE

\* C18: two XInputState values compare equal exactly when their packet numbers
\* are equal, whatever their other fields are; so equality is reflexive,
\* symmetric and transitive.
C18_EqualityByPacketNumber ==
  calc.op = "eq" =>
    /\ \A i \in 1 .. 3, j \in 1 .. 3 :
         calc.value[i][j] <=>
           calc.v[i].raw.dwPacketNumber = calc.v[j].raw.dwPacketNumber
    /\ \A i \in 1 .. 3 : calc.value[i][i]
    /\ \A i \in 1 .. 3, j \in 1 .. 3 : calc.value[i][j] => calc.value[j][i]
    /\ \A i \in 1 .. 3, j \in 1 .. 3, k \in 1 .. 3 :
         (calc.value[i][j] /\ calc.value[j][k]) => calc.value[i][k]

\* C18's case: two states with packet number 7 and different buttons and
\* sticks compare equal, and neither equals a state that differs from one of
\* them in the packet number only.
C18_Witness ==
  /\ calc.op = "eq"
  /\ calc.v[1].raw.dwPacketNumber = 7
  /\ calc.v[2].raw.dwPacketNumber = 7
  /\ calc.v[1].raw.Gamepad.wButtons # calc.v[2].raw.Gamepad.wButtons
  /\ calc.v[1].raw.Gamepad.sThumbLX # calc.v[2].raw.Gamepad.sThumbLX
  /\ calc.v[3].raw.Gamepad = calc.v[1].raw.Gamepad
  /\ calc.v[3].raw.dwPacketNumber = 8
  /\ calc.value[1][2]
  /\ ~calc.value[1][3]
  /\ ~calc.value[3][2]

\* |c| <= 1.0 for an f32 c that is a number.
AbsAtMostOne(c) ==
  /\ c.k = "num"
  /\ c.m = 0 \/ c.e < -23 \/ (c.e = -23 /\ c.m = 8388608)

\* C19: for every raw stick vector and every deadzone of the i16 range, both
\* components of normalize_raw_stick_value are numbers (never NaN) of absolute
\* value at most 1.0.
C19_ComponentsWithinUnit ==
  calc.op = "normalize_raw_stick_value" =>
    \A i \in 1 .. 2 : AbsAtMostOne(calc.value[i])

\* C19's case: the corner (i16::MIN, i16::MIN), longer than 32767, with the
\* deadzone clamped up from i16::MIN gives two negative components below 1.0
\* in size, and (i16::MAX, 0) with deadzone i16::MAX gives exactly (1.0, 0.0).
C19_Witness ==
  /\ calc.op = "normalize_raw_stick_value"
  /\ \/ /\ calc.raw_stick = <<i16_MIN, i16_MIN>> /\ calc.deadzone = i16_MIN
        /\ \A i \in 1 .. 2 : calc.value[i].s = 1 /\ calc.value[i].e = -24
     \/ /\ calc.raw_stick = <<i16_MAX, 0>> /\ calc.deadzone = i16_MAX
        /\ calc.value = <<[k |-> "num", s |-> 0, m |-> 8388608, e |-> -23], Zero(0)>>

\* x^2 + y^2 <= d^2 in the integers, without leaving 32 bits.
WithinRadius(raw_stick, d) ==
  raw_stick[1] * raw_stick[1] <= d * d - raw_stick[2] * raw_stick[2]

\* C20: normalize_raw_stick_value returns exactly (0.0, 0.0) whenever
\* sqrt(x^2 + y^2) <= clamp(deadzone, 0, 32766), the raw vector (0, 0)
\* included, and a non-zero vector whenever the length is strictly greater
\* than the clamped deadzone.
C20_ZeroExactlyWithinDeadzone ==
  calc.op = "normalize_raw_stick_value" =>
    LET clamped == IF calc.deadzone < 0 THEN 0
                   ELSE IF calc.deadzone > 32766 THEN 32766 ELSE calc.deadzone
    IN IF WithinRadius(calc.raw_stick, clamped)
         THEN calc.value = <<Zero(0), Zero(0)>>
         ELSE \E i \in 1 .. 2 : calc.value[i].m # 0

\* C21: normalize_raw_stick_value makes the length-versus-deadzone check
\* before any division by the length: when the length is not greater than the
\* clamped deadzone no quotient by the length is evaluated, so for the raw
\* vector (0, 0) no division by zero is evaluated.
C21_CheckBeforeDivision ==
  (calc.op = "normalize_raw_stick_value" /\ ~Less(calc.deadzone_float, calc.length)) =>
    /\ calc.divided_by_length = <<>>
    /\ calc.raw_stick = <<0, 0>> =>
         ~(calc.divided_by_length # <<>> /\ calc.length.m = 0)

\* The queries of the singleton.
DemoQueries == {"demo_xinput_get_state", "demo_xinput_set_state"}

\* C22: in the singleton, in every reachable state under any interleaving of
\* dynamic_load_xinput, xinput_get_state and xinput_set_state of several
\* threads, the register Active implies that the get-state and the set-state
\* pointers are both bound; a query that has observed Active finds its pointer
\* bound, so no unwrap fails; and while the register is not Active no query
\* has made a native call.
C22_ActiveImpliesBound ==
  /\ statics.xinput_status = xinput_ACTIVE =>
       /\ is_some(statics.opt_xinput_get_state)
       /\ is_some(statics.opt_xinput_set_state)
  /\ \A t \in Threads :
       /\ pc[t] = "get_state_func" =>
            statics.xinput_status = xinput_ACTIVE /\ is_some(statics.opt_xinput_get_state)
       /\ pc[t] = "set_state_func" =>
            statics.xinput_status = xinput_ACTIVE /\ is_some(statics.opt_xinput_set_state)
  /\ call.op \in DemoQueries =>
       /\ call.res # Panic
       /\ statics.xinput_status # xinput_ACTIVE => call.native = <<>>
       /\ call.native # <<>> =>
            call.native[1].fn \in {statics.opt_xinput_get_state, statics.opt_xinput_set_state}

\* C22's case: a load attempt is under way after an earlier one has failed,
\* with one pointer written and the register still Loading, and a query of
\* another thread has returned without a native call; or the register is
\* Active, a query has called through its pointer and another thread is
\* between its test of the register and its unwrap.
C22_Witness ==
  \/ /\ statics.xinput_status = xinput_LOADING
     /\ is_some(statics.opt_xinput_get_state)
     /\ \E t \in Threads : pc[t] = "set_state_ptr" /\ job[t].after_failure
     /\ call.op \in DemoQueries /\ call.native = <<>>
  \/ /\ statics.xinput_status = xinput_ACTIVE
     /\ call.op = "demo_xinput_get_state" /\ call.native # <<>>
     /\ \E t \in Threads : pc[t] = "set_state_func"

\* C23: in the singleton, at most one thread at a time is between winning the
\* compare-and-swap from Uninitialized to Loading and the closing one, and
\* there is one exactly while the register is Loading; the library handle and
\* the two pointer slots are written only by a step of that thread; and a step
\* of any other thread while it is there, a dynamic_load_xinput call included,
\* leaves the register, the handle, the slots and the loaded libraries as
\* they are.
C23_SingleLoader ==
  [][ /\ Cardinality(DemoLoaders) <= 1
      /\ DemoLoaders # {} <=> statics.xinput_status = xinput_LOADING
      /\ ( \/ statics'.global_xinput_handle # statics.global_xinput_handle
           \/ statics'.opt_xinput_get_state # statics.opt_xinput_get_state
           \/ statics'.opt_xinput_set_state # statics.opt_xinput_set_state ) =>
           \E t \in DemoLoaders : pc'[t] # pc[t]
      /\ (DemoLoaders # {} /\ \A t \in DemoLoaders : pc'[t] = pc[t]) =>
           statics' = statics /\ modules' = modules
    ]_vars

\* C23's case: one thread has won the register, has written both pointers and
\* the library handle and is about to take the register to Active, after an
\* earlier attempt failed; the other thread has returned from a query meanwhile.
C23_Witness ==
  /\ statics.xinput_status = xinput_LOADING
  /\ statics.global_xinput_handle # NULL
  /\ \E t \in Threads : DemoLoaders = {t} /\ pc[t] = "activate" /\ job[t].after_failure
  /\ call.op \in DemoQueries

\* C24: in the singleton, the register takes only the values Uninitialized,
\* Loading and Active, so the unknown-state arm is never taken; and every load
\* attempt that has won the register takes it out of Loading in the end, to
\* Active or to Uninitialized, and returns, provided its thread keeps running
\* and the loader's calls return.
C24_LoadingEnds ==
  /\ [](statics.xinput_status \in {xinput_UNINITIALIZED, xinput_LOADING, xinput_ACTIVE})
  /\ (statics.xinput_status = xinput_LOADING) ~>
       /\ statics.xinput_status \in {xinput_UNINITIALIZED, xinput_ACTIVE}
       /\ DemoLoaders = {}

\* C24's case: an attempt that found a library without both functions has
\* released it and taken the register back to Uninitialized, and no attempt is
\* under way.
C24_Witness ==
  /\ last.op = "demo_dynamic_load_xinput"
  /\ last.ret.err = "NoPointers"
  /\ last.freed # <<>>
  /\ statics.xinput_status = xinput_UNINITIALIZED
  /\ DemoLoaders = {}

\* The threads inside the initialiser of the global handle.
Initialisers == {t \in Threads : pc[t] = "init"}

====
